---- MODULE Spec2Model ----
(***************************************************************************)
(* The announcement-scoring pipeline of App (src/unnamed/part_000, lines   *)
(* 191-625): a file is read and normalized (processFile), the records are  *)
(* sent in batches of BATCH_SIZE to the external scorer                    *)
(* (analyzeQualityBatch), and every batch result is merged by _id into     *)
(* the React state cleanedData (handleProcessClick).                       *)
(*                                                                         *)
(* Representation.  A JavaScript object is a TLA+ record whose DOMAIN is   *)
(* the set of its own properties: an optional property that was never set  *)
(* is absent from the DOMAIN (reading it gives undefined).  Numbers are    *)
(* fixed-point: dimension scores are in hundredths (725 is 7.25), the      *)
(* weights are in hundredths (20 is 0.20), their products are in           *)
(* ten-thousandths, and QualityScore is in hundredths after toFixed(2).    *)
(* The status literal 'Falha na Análise' is written without its accent.    *)
(***************************************************************************)
EXTENDS Integers, Sequences, FiniteSets, TLC

VARIABLES
  inputFile,       \* useState<File | null>: the selected file (its parsed content)
  cleanedData,     \* useState<CleanedRecord[]>: the shared collection
  processingStep,  \* useState<ProcessingStep>
  progress,        \* useState<Progress>
  error,           \* useState<string | null>
  pc,              \* where handleProcessClick is suspended: "idle" when it is not running
  cleanedResults,  \* handleProcessClick's local: the records processFile resolved with
  i,               \* handleProcessClick's loop variable
  response,        \* what the scoring call of the batch last handled produced
  analyzedBatch,   \* handleProcessClick's local: analyzeQualityBatch's result
  writes,          \* per index of cleanedData: how often the merge assigned newData[index] in this run
  issued,          \* the scoring calls of this run, in order: the loop variable and the batch of each
  merges,          \* how many batch results this run has merged into cleanedData
  filters,         \* useState({ title: '', community: '', author: '' })
  displayedData,   \* useState<CleanedRecord[]>([]), set by the filter effect
  download         \* the file the last download click produced, with the records and filters of that click

vars == <<inputFile, cleanedData, processingStep, progress, error, pc,
          cleanedResults, i, response, analyzedBatch, writes, issued, merges,
          filters, displayedData, download>>

-----------------------------------------------------------------------------
(* Bounds of the model *)

MaxRecords == 12

MaxTail == 2

(* Program constants *)

BATCH_SIZE == 10

NaN == -1

-----------------------------------------------------------------------------
(* Values *)

Pending == "Aguardando IA..."

Scored == "Analisado"

Failed == "Falha na Analise"

weights ==
  [clareza |-> 20, empatia |-> 20, coerencia |-> 20,
   formalidade |-> 15, eficacia |-> 15, linguistica |-> 10]

WeightKeys == <<"clareza", "empatia", "coerencia", "formalidade", "eficacia", "linguistica">>

Dimensions == {WeightKeys[k] : k \in 1..Len(WeightKeys)}

\* { ...a, ...b }: b's own properties win
spread(a, b) ==
  [k \in (DOMAIN a) \cup (DOMAIN b) |-> IF k \in DOMAIN b THEN b[k] ELSE a[k]]

Min(a, b) == IF a < b THEN a ELSE b

\* arr.slice(from, to) taking the element at index to as well
sliceInclusive(arr, from, to) == SubSeq(arr, from + 1, Min(to + 1, Len(arr)))

\* Array.prototype.slice(from, to) on a 0-based array held as a 1-based sequence
slice(arr, from, to) == SubSeq(arr, from + 1, Min(to, Len(arr)))

-----------------------------------------------------------------------------
(* Input files *)

NoFile == [kind |-> "null"]

\* What an element of the input array may be: an object without _id ("none"),
\* a non-object ("number"), null, or an object whose _id.$oid is the given string
ElementKinds == {"none", "number", "null", "", "a", "b"}

\* The element of kind what at position p of the input array; type is what
\* typeof gives, and typeof null is 'object'
RawElement(p, what) ==
  CASE what = "number" -> [type |-> "number"]
    [] what = "null"   -> [type |-> "object", isNull |-> TRUE]
    [] what = "none"   -> [type |-> "object", title |-> ToString(p)]
    [] OTHER           -> [type |-> "object", title |-> ToString(p), oid |-> what]

\* The arrays of n elements whose last MaxTail elements are of any kind and
\* whose other elements are objects without _id
RawArrays(n) ==
  { [p \in 1..n |-> RawElement(p, IF p \in DOMAIN t THEN t[p] ELSE "none")] :
      t \in [ {p \in 1..n : p > n - MaxTail} -> ElementKinds ] }

\* The files a user may select: what JSON.parse (after the repair) makes of them
Files ==
  { [kind |-> "array", data |-> a] : a \in UNION { RawArrays(n) : n \in 0..MaxRecords } }
    \cup { [kind |-> "nonarray"], [kind |-> "syntaxerror"], [kind |-> "unreadable"] }

-----------------------------------------------------------------------------
(* processFile *)

\* `${Date.now()}-${Math.random()}`: a value no other element of the run gets
SynthId(p) == "gen-" \o ToString(p)

\* item._id?.$oid || synthesized: an absent or empty $oid is falsy
RecordId(item, p) ==
  IF "oid" \in DOMAIN item /\ item.oid # "" THEN item.oid ELSE SynthId(p)

\* item[f] || '': an absent or empty property gives the empty string
OrEmpty(item, f) == IF f \in DOMAIN item /\ item[f] # "" THEN item[f] ELSE ""

\* cleanHtmlAndNormalize(item.description || ''): the input objects carry no
\* description, and the empty string is cleaned to the empty string
cleanText(item) == ""

\* The record the callback of data.map builds for the object at position p
ParsedRecord(item, p) ==
  [_id        |-> RecordId(item, p),
   title      |-> OrEmpty(item, "title"),
   community  |-> OrEmpty(item, "community"),
   author     |-> OrEmpty(item, "author"),
   text_clean |-> cleanText(item),
   word_count |-> 0]   \* cleanText ? cleanText.split(' ').length : 0, the text being empty

\* item === null
IsNull(item) == "isNull" \in DOMAIN item

RECURSIVE MapFilterKeepAll(_, _)
\* data.map(...) without the guard on the element and without the filter
MapFilterKeepAll(data, p) ==
  IF p > Len(data) THEN <<>>
  ELSE <<ParsedRecord(data[p], p)>> \o MapFilterKeepAll(data, p + 1)

RECURSIVE MapFilterTypeofOnly(_, _)
\* the guard without item === null
MapFilterTypeofOnly(data, p) ==
  IF p > Len(data) THEN <<>>
  ELSE IF data[p].type # "object" THEN MapFilterTypeofOnly(data, p + 1)
  ELSE <<ParsedRecord(data[p], p)>> \o MapFilterTypeofOnly(data, p + 1)

RECURSIVE MapFilter(_, _)
\* data.map(...).filter(record => record !== null), from position p on; the
\* callback returns null if typeof item !== 'object' || item === null
MapFilter(data, p) ==
  IF p > Len(data) THEN <<>>
  ELSE IF data[p].type # "object" \/ IsNull(data[p]) THEN MapFilter(data, p + 1)
  ELSE <<ParsedRecord(data[p], p)>> \o MapFilter(data, p + 1)

processFile(file) == MapFilter(file.data, 1)

-----------------------------------------------------------------------------
(* The external scoring call *)

NoResponse == [kind |-> "none"]

\* The bodies a response item may carry: six dimension scores and a comment
ItemBodies ==
  << [clareza |-> 725, empatia |-> 800, coerencia |-> 650,
      formalidade |-> 725, eficacia |-> 900, linguistica |-> 1000, comentario |-> "c1"],
     [clareza |-> 310, empatia |-> 0, coerencia |-> 1000,
      formalidade |-> 440, eficacia |-> 555, linguistica |-> 120, comentario |-> "c2"] >>

\* One item per requested record, in request order, all with body v
FullResults(batch, v) == [j \in 1..Len(batch) |-> spread([id |-> batch[j]._id], v)]

\* One item per requested record, the bodies alternating
MixedResults(batch) ==
  [j \in 1..Len(batch) |-> spread([id |-> batch[j]._id], ItemBodies[1 + (j % 2)])]

\* results without its k-th item
DropItem(results, k) == SubSeq(results, 1, k - 1) \o SubSeq(results, k + 1, Len(results))

\* results with property f of its k-th item missing
DropField(results, k, f) ==
  [results EXCEPT ![k] = [key \in (DOMAIN results[k]) \ {f} |-> results[k][key]]]

\* An item whose id was not requested
ForeignItem == spread([id |-> "zz"], ItemBodies[2])

\* The JSON arrays the scorer may answer a batch with
ResultArrays(batch) ==
  { FullResults(batch, ItemBodies[1]), FullResults(batch, ItemBodies[2]),
    MixedResults(batch),
    DropItem(FullResults(batch, ItemBodies[1]), 1),
    DropItem(MixedResults(batch), Len(batch)),
    DropField(FullResults(batch, ItemBodies[1]), 1, "clareza"),
    FullResults(batch, ItemBodies[1]) \o <<ForeignItem>>,
    <<>> }

\* What awaiting generateContent and parsing its text can produce
Outcomes(batch) ==
  { [kind |-> "throws"], [kind |-> "unparseable"] }
    \cup { [kind |-> "parsed", results |-> r] : r \in ResultArrays(batch) }

-----------------------------------------------------------------------------
(* analyzeQualityBatch *)

\* resultMap.get(id) as a sequence: <<>> when the map has no entry, else
\* <<item>>; new Map(entries) keeps the last entry of a repeated key
resultMapGet(analysisResults, id) ==
  LET hits == {j \in 1..Len(analysisResults) :
                 "id" \in DOMAIN analysisResults[j] /\ analysisResults[j].id = id}
  IN IF hits = {} THEN <<>>
     ELSE <<analysisResults[CHOOSE j \in hits : \A h \in hits : h <= j]>>

RECURSIVE reduceWeights(_, _, _)
\* Object.entries(weights).reduce((acc, [key, weight]) => acc + result[key] * weight, 0):
\* undefined * weight is NaN, and NaN stays NaN
reduceWeights(result, k, acc) ==
  IF k > Len(WeightKeys) THEN acc
  ELSE IF acc = NaN \/ WeightKeys[k] \notin DOMAIN result THEN reduceWeights(result, k + 1, NaN)
  ELSE reduceWeights(result, k + 1, acc + result[WeightKeys[k]] * weights[WeightKeys[k]])

qualityScore(result) == reduceWeights(result, 1, 0)

\* parseFloat(x.toFixed(2)): x in ten-thousandths to the nearest hundredth,
\* the larger one when two are equally near; NaN gives "NaN", which parses to NaN
toFixed2(x) == IF x = NaN THEN NaN ELSE (x + 50) \div 100

\* { ...record, ...result, QualityScore, status: 'Analisado' }
ScoredRecord(record, result) ==
  spread(spread(record, result),
         [QualityScore |-> toFixed2(qualityScore(result)), status |-> Scored])

\* FailureRecord without its QualityScore: 0
FailureRecordNoScore(record) == spread(record, [status |-> Failed])

\* { ...record, status: 'Falha na Análise', QualityScore: 0 }
FailureRecord(record) == spread(record, [status |-> Failed, QualityScore |-> 0])

\* The callback of batch.map in the try block
AnalyzeRecord(record, analysisResults) ==
  LET result == resultMapGet(analysisResults, record._id)
  IN IF result # <<>> THEN ScoredRecord(record, result[1]) ELSE FailureRecord(record)

\* analyzeQualityBatch failing the whole batch when any requested id has no item
analyzeQualityBatchStrict(batch, outcome) ==
  IF outcome.kind = "parsed"
       /\ \A j \in 1..Len(batch) : resultMapGet(outcome.results, batch[j]._id) # <<>>
  THEN [j \in 1..Len(batch) |-> AnalyzeRecord(batch[j], outcome.results)]
  ELSE [j \in 1..Len(batch) |-> FailureRecord(batch[j])]

analyzeQualityBatch(batch, outcome) ==
  IF outcome.kind = "parsed"
  THEN [j \in 1..Len(batch) |-> AnalyzeRecord(batch[j], outcome.results)]
  ELSE [j \in 1..Len(batch) |-> FailureRecord(batch[j])]

-----------------------------------------------------------------------------
(* The merge of handleProcessClick *)

\* newData.findIndex(item => item._id === id): 0-based, -1 when there is none
findIndex(newData, id) ==
  LET hits == {j \in 1..Len(newData) : newData[j]._id = id}
  IN IF hits = {} THEN -1 ELSE (CHOOSE j \in hits : \A h \in hits : j <= h) - 1

\* MergeRecord with the two spreads in the other order
MergeRecordReversed(existing, analyzedRecord) == spread(analyzedRecord, existing)

\* { ...newData[index], ...analyzedRecord }
MergeRecord(existing, analyzedRecord) == spread(existing, analyzedRecord)

\* The body of the forEach callback: newData after the callback has run
\* for analyzedRecord
mergeOne(newData, analyzedRecord) ==
  LET index == findIndex(newData, analyzedRecord._id)
  IN IF index # -1
     THEN [newData EXCEPT ![index + 1] = MergeRecord(@, analyzedRecord)]
     ELSE newData

RECURSIVE forEachMerge(_, _, _)
\* analyzedBatch.forEach(...) from its k-th record on; each intermediate
\* array is bound as a value before the next callback runs on it
forEachMerge(newData, analyzed, k) ==
  IF k > Len(analyzed) THEN newData
  ELSE CHOOSE result \in { forEachMerge(next, analyzed, k + 1) :
                             next \in {mergeOne(newData, analyzed[k])} } : TRUE

\* a merge that appends the analysed records instead of replacing by _id
MergeBatchAppend(prevData, analyzed) == prevData \o analyzed

\* The updater passed to setCleanedData
MergeBatch(prevData, analyzed) == forEachMerge(prevData, analyzed, 1)

\* How often forEach assigns each index (the merge never changes an _id)
CountWrites(w, prevData, analyzed) ==
  [x \in DOMAIN w |->
     w[x] + Cardinality({k \in 1..Len(analyzed) : findIndex(prevData, analyzed[k]._id) = x - 1})]

\* cleanedResults.map(record => ({ ...record, status: 'Aguardando IA...' }))
InitialRecord(record) == spread(record, [status |-> Pending])

\* cleanedResults.slice(i, i + BATCH_SIZE)
Batch == slice(cleanedResults, i, i + BATCH_SIZE)

\* processingStep === 'cleaning' alone
isCleaningOnly == processingStep = "cleaning"

isProcessing == processingStep = "cleaning" \/ processingStep = "analyzing"

-----------------------------------------------------------------------------
(* The filter effect *)

NoFilters == [title |-> "", community |-> "", author |-> ""]

UpperCaseLetters == "ABCDEFGHIJKLMNOPQRSTUVWXYZ"
LowerCaseLetters == "abcdefghijklmnopqrstuvwxyz"

\* s.charAt(k - 1)
charAt(s, k) == SubSeq(s, k, k)

\* the lower-case letter of an upper-case letter, any other character itself
lowerChar(c) ==
  LET hits == {k \in 1..Len(UpperCaseLetters) : charAt(UpperCaseLetters, k) = c}
  IN IF hits = {} THEN c ELSE charAt(LowerCaseLetters, CHOOSE k \in hits : TRUE)

RECURSIVE toLowerCase(_)
\* s.toLowerCase()
toLowerCase(s) ==
  IF Len(s) = 0 THEN ""
  ELSE lowerChar(charAt(s, 1)) \o toLowerCase(SubSeq(s, 2, Len(s)))

\* s.includes(sub)
includes(s, sub) ==
  \E k \in 1..(Len(s) - Len(sub) + 1) : SubSeq(s, k, k + Len(sub) - 1) = sub

\* the filter's callback comparing the texts as they are
itemMatchesExactCase(item, wanted) ==
  /\ includes(item.title, wanted.title)
  /\ includes(item.community, wanted.community)
  /\ includes(item.author, wanted.author)

\* the callback of cleanedData.filter, the filters being lower-cased before
itemMatches(item, wanted) ==
  /\ includes(toLowerCase(item.title), toLowerCase(wanted.title))
  /\ includes(toLowerCase(item.community), toLowerCase(wanted.community))
  /\ includes(toLowerCase(item.author), toLowerCase(wanted.author))

\* the effect on [filters, cleanedData]: the value it gives displayedData
filterData(data, wanted) == SelectSeq(data, LAMBDA item : itemMatches(item, wanted))

-----------------------------------------------------------------------------
(* convertToCsv *)

headers ==
  << "title", "community", "author", "text_clean", "word_count",
     "clareza", "empatia", "coerencia", "formalidade", "eficacia", "linguistica",
     "QualityScore", "comentario", "status" >>

\* the columns whose values are numbers kept in hundredths
HundredthsHeaders == Dimensions \cup {"QualityScore"}

\* '' + x for the number x given in hundredths: no trailing zero, no
\* decimal point for an integer, "NaN" for NaN
numberToString(x) ==
  IF x = NaN THEN "NaN"
  ELSE IF x % 100 = 0 THEN ToString(x \div 100)
  ELSE IF x % 10 = 0 THEN ToString(x \div 100) \o "." \o ToString((x % 100) \div 10)
  ELSE ToString(x \div 100) \o "." \o (IF x % 100 < 10 THEN "0" ELSE "") \o ToString(x % 100)

\* '' + (row[header] ?? ''): a missing property gives the empty string
valueString(row, header) ==
  IF header \notin DOMAIN row THEN ""
  ELSE IF header = "word_count" THEN ToString(row[header])
  ELSE IF header \in HundredthsHeaders THEN numberToString(row[header])
  ELSE row[header]

\* the value left as it is, its double quotes not doubled
escapeNothing(s) == s

RECURSIVE escapeQuotes(_)
\* s.replace(/"/g, '""')
escapeQuotes(s) ==
  IF Len(s) = 0 THEN ""
  ELSE (IF charAt(s, 1) = "\"" THEN "\"\"" ELSE charAt(s, 1))
         \o escapeQuotes(SubSeq(s, 2, Len(s)))

\* `"${escaped}"`
csvValue(row, header) == "\"" \o escapeQuotes(valueString(row, header)) \o "\""

RECURSIVE join(_, _)
\* strings.join(separator)
join(strings, separator) ==
  IF Len(strings) = 0 THEN ""
  ELSE IF Len(strings) = 1 THEN strings[1]
  ELSE strings[1] \o separator \o join(Tail(strings), separator)

\* the line of one record
csvRow(row) == join([h \in 1..Len(headers) |-> csvValue(row, headers[h])], ",")

convertToCsv(data) ==
  IF Len(data) = 0 THEN ""
  ELSE join(<<join(headers, ",")>> \o [k \in 1..Len(data) |-> csvRow(data[k])], "\n")

NoDownload == [kind |-> "none"]

\* One invocation of analyzeQualityBatch(ai, batch), made with loop variable from
ScoringCall(from, batch) == [from |-> from, batch |-> batch]

\* processed + BATCH_SIZE, uncapped
NextProcessedBySize(processed, batchLength, total) == processed + BATCH_SIZE

\* Math.min(prevProgress.processed + batch.length, cleanedResults.length)
NextProcessed(processed, batchLength, total) == Min(processed + batchLength, total)

-----------------------------------------------------------------------------
(* The state machine *)

NoError == "null"

RejectMessage(file) ==
  CASE file.kind = "syntaxerror" -> "Erro de sintaxe: O arquivo nao e um JSON valido."
    [] file.kind = "nonarray"    -> "Erro ao processar o arquivo: O JSON fornecido nao e um array."
    [] OTHER                     -> "Nao foi possivel ler o arquivo."

Init ==
  /\ inputFile = NoFile
  /\ cleanedData = <<>>
  /\ processingStep = "idle"
  /\ progress = [processed |-> 0, total |-> 0]
  /\ error = NoError
  /\ pc = "idle"
  /\ cleanedResults = <<>>
  /\ i = 0
  /\ response = NoResponse
  /\ analyzedBatch = <<>>
  /\ writes = <<>>
  /\ issued = <<>>
  /\ merges = 0
  /\ filters = NoFilters
  /\ displayedData = <<>>
  /\ download = NoDownload

\* FileUploader's onFileSelect = setInputFile; the uploader is disabled while
\* processing.  A session selects one file; a later run reads the same file.
SelectFile(file) ==
  /\ ~isProcessing
  /\ inputFile = NoFile
  /\ inputFile' = file
  /\ UNCHANGED <<cleanedData, processingStep, progress, error, pc,
                 cleanedResults, i, response, analyzedBatch, writes, issued, merges,
                 filters, displayedData, download>>

\* handleProcessClick up to its first await; the button is disabled while
\* there is no file and while processing
HandleProcessClick ==
  /\ inputFile # NoFile
  /\ ~isProcessing
  /\ error' = NoError
  /\ cleanedData' = <<>>
  /\ processingStep' = "cleaning"
  /\ progress' = [processed |-> 0, total |-> 0]
  /\ pc' = "reading"
  /\ cleanedResults' = <<>>
  /\ i' = 0
  /\ response' = NoResponse
  /\ analyzedBatch' = <<>>
  /\ writes' = <<>>
  /\ issued' = <<>>
  /\ merges' = 0
  /\ displayedData' = <<>>
  /\ UNCHANGED <<inputFile, filters, download>>

\* processFile rejects: the catch block of handleProcessClick
FileRejected ==
  /\ pc = "reading"
  /\ inputFile.kind # "array"
  /\ error' = RejectMessage(inputFile)
  /\ processingStep' = "idle"
  /\ pc' = "idle"
  /\ UNCHANGED <<inputFile, cleanedData, progress, cleanedResults, i,
                 response, analyzedBatch, writes, issued, merges,
                 filters, displayedData, download>>

\* processFile resolves with no record
FileEmpty ==
  /\ pc = "reading"
  /\ inputFile.kind = "array"
  /\ processFile(inputFile) = <<>>
  /\ processingStep' = "done"
  /\ error' = "Nenhum registro valido encontrado no arquivo."
  /\ pc' = "idle"
  /\ UNCHANGED <<inputFile, cleanedData, progress, cleanedResults, i,
                 response, analyzedBatch, writes, issued, merges,
                 filters, displayedData, download>>

\* processFile resolves with records: up to the first scoring call
FileLoaded ==
  /\ pc = "reading"
  /\ inputFile.kind = "array"
  /\ LET results == processFile(inputFile)
     IN /\ results # <<>>
        /\ cleanedResults' = results
        /\ processingStep' = "analyzing"
        /\ progress' = [processed |-> 0, total |-> Len(results)]
        /\ cleanedData' = [x \in 1..Len(results) |-> InitialRecord(results[x])]
        /\ writes' = [x \in 1..Len(results) |-> 0]
  /\ i' = 0
  /\ pc' = "scoring"
  /\ issued' = <<ScoringCall(0, slice(cleanedResults', 0, BATCH_SIZE))>>
  /\ displayedData' = filterData(cleanedData', filters)
  /\ UNCHANGED <<inputFile, error, response, analyzedBatch, merges, filters, download>>

\* i + BATCH_SIZE <= cleanedResults.length
moreBatchesOrEnd(from, length) == from + BATCH_SIZE <= length

\* i + BATCH_SIZE < cleanedResults.length: the condition of the delay
moreBatches(from, length) == from + BATCH_SIZE < length

\* the loop leaving through the catch block when the batch's call failed
SettleStopOnFailure(outcome) ==
  /\ response' = outcome
  /\ \E analyzed \in {analyzeQualityBatch(Batch, outcome)} :
       \E newData \in {MergeBatch(cleanedData, analyzed)} :
         /\ analyzedBatch' = analyzed
         /\ cleanedData' = newData
         /\ writes' = CountWrites(writes, cleanedData, analyzed)
         /\ displayedData' = filterData(newData, filters)
  /\ merges' = merges + 1
  /\ progress' = [progress EXCEPT
                    !.processed = NextProcessed(progress.processed, Len(Batch),
                                                Len(cleanedResults))]
  /\ IF outcome.kind # "parsed"
     THEN pc' = "idle" /\ processingStep' = "idle"
     ELSE IF moreBatches(i, Len(cleanedResults))
     THEN pc' = "delay" /\ UNCHANGED processingStep
     ELSE pc' = "idle" /\ processingStep' = "done"
  /\ UNCHANGED <<inputFile, error, cleanedResults, i, issued, filters, download>>

\* The scoring call of the current batch settles: analyzeQualityBatch returns,
\* the batch is merged, the progress advances, and the loop either suspends
\* for the delay or ends
Settle(outcome) ==
  /\ response' = outcome
  /\ \E analyzed \in {analyzeQualityBatch(Batch, outcome)} :
       \E newData \in {MergeBatch(cleanedData, analyzed)} :
         /\ analyzedBatch' = analyzed
         /\ cleanedData' = newData
         /\ writes' = CountWrites(writes, cleanedData, analyzed)
         /\ displayedData' = filterData(newData, filters)
  /\ merges' = merges + 1
  /\ progress' = [progress EXCEPT
                    !.processed = NextProcessed(progress.processed, Len(Batch),
                                                Len(cleanedResults))]
  /\ IF moreBatches(i, Len(cleanedResults))
     THEN pc' = "delay" /\ UNCHANGED processingStep
     ELSE pc' = "idle" /\ processingStep' = "done"
  /\ UNCHANGED <<inputFile, error, cleanedResults, i, issued, filters, download>>

ScoreReturn ==
  /\ pc = "scoring"
  /\ \E outcome \in Outcomes(Batch) : Settle(outcome)

\* the loop with a retry: a batch whose call failed is sent again
DelayElapsedRetry ==
  /\ pc = "delay"
  /\ i' = IF response.kind \in {"throws", "unparseable"} THEN i ELSE i + BATCH_SIZE
  /\ pc' = "scoring"
  /\ response' = NoResponse
  /\ analyzedBatch' = <<>>
  /\ issued' = Append(issued, ScoringCall(i', slice(cleanedResults, i', i' + BATCH_SIZE)))
  /\ UNCHANGED <<inputFile, cleanedData, processingStep, progress, error,
                 cleanedResults, writes, merges, filters, displayedData, download>>

\* The 5000 ms timer fires: the next iteration issues its scoring call
DelayElapsed ==
  /\ pc = "delay"
  /\ i' = i + BATCH_SIZE
  /\ pc' = "scoring"
  /\ response' = NoResponse
  /\ analyzedBatch' = <<>>
  /\ issued' = Append(issued, ScoringCall(i', slice(cleanedResults, i', i' + BATCH_SIZE)))
  /\ UNCHANGED <<inputFile, cleanedData, processingStep, progress, error,
                 cleanedResults, writes, merges, filters, displayedData, download>>

Next ==
  \/ \E file \in Files : SelectFile(file)
  \/ HandleProcessClick
  \/ FileRejected
  \/ FileEmpty
  \/ FileLoaded
  \/ ScoreReturn
  \/ DelayElapsed

Spec == Init /\ [][Next]_vars

\* The runs in which the file read settles, every scoring call returns and
\* the timer of the delay fires; the user's clicks are not forced
FairSpec ==
  /\ Spec
  /\ WF_vars(FileRejected)
  /\ WF_vars(FileEmpty)
  /\ WF_vars(FileLoaded)
  /\ WF_vars(ScoreReturn)
  /\ WF_vars(DelayElapsed)

-----------------------------------------------------------------------------
(* Filtering and exporting a finished collection *)

MaxExportRecords == 2

\* The objects of the exported inputs: texts with upper and lower case,
\* double quotes, commas and line breaks, and an object without author
ExportElements ==
  { [type |-> "object", title |-> "Aviso \"Norte\"", community |-> "North",
     author |-> "Ana, Nora"],
    [type |-> "object", title |-> "linha1\nlinha2", community |-> "NORTHEAST",
     author |-> "ana"],
    [type |-> "object", title |-> "Festa", community |-> "south"] }

ExportArrays == UNION { [1..n -> ExportElements] : n \in 0..MaxExportRecords }

\* A response body whose comment has a comma, double quotes and a line break
ExportBody ==
  [clareza |-> 850, empatia |-> 700, coerencia |-> 905, formalidade |-> 600,
   eficacia |-> 1000, linguistica |-> 10, comentario |-> "Bom, \"claro\"\ne direto"]

\* The outcomes of the one scoring call of these runs: a failure, a full
\* answer, and an answer whose first item lacks a dimension
ExportOutcomes(batch) ==
  { [kind |-> "throws"],
    [kind |-> "parsed", results |-> FullResults(batch, ExportBody)],
    [kind |-> "parsed", results |-> DropField(MixedResults(batch), 1, "clareza")] }

\* The texts typed into a filter input
FilterTexts == {"", "NoR"}

\* The state in which a run over an exported input has ended
ExportInit ==
  \E data \in ExportArrays :
    LET file == [kind |-> "array", data |-> data]
        results == processFile(file)
        initialData == [x \in 1..Len(results) |-> InitialRecord(results[x])]
    IN /\ inputFile = file
       /\ cleanedResults = results
       /\ processingStep = "done"
       /\ pc = "idle"
       /\ i = 0
       /\ filters = NoFilters
       /\ download = NoDownload
       /\ IF results = <<>>
          THEN /\ cleanedData = <<>>
               /\ error = "Nenhum registro valido encontrado no arquivo."
               /\ progress = [processed |-> 0, total |-> 0]
               /\ response = NoResponse
               /\ analyzedBatch = <<>>
               /\ writes = <<>>
               /\ issued = <<>>
               /\ merges = 0
          ELSE \E outcome \in ExportOutcomes(results) :
                 /\ response = outcome
                 /\ analyzedBatch = analyzeQualityBatch(results, outcome)
                 /\ cleanedData = MergeBatch(initialData, analyzedBatch)
                 /\ error = NoError
                 /\ progress = [processed |-> Len(results), total |-> Len(results)]
                 /\ writes = CountWrites([x \in 1..Len(results) |-> 0], initialData,
                                         analyzedBatch)
                 /\ issued = <<ScoringCall(0, results)>>
                 /\ merges = 1
       /\ displayedData = filterData(cleanedData, filters)

\* handleFilterChange and the effect it triggers; the inputs are rendered
\* when cleanedData.length > 0
HandleFilterChange(name, value) ==
  /\ Len(cleanedData) > 0
  /\ filters' = [filters EXCEPT ![name] = value]
  /\ displayedData' = filterData(cleanedData, filters')
  /\ UNCHANGED <<inputFile, cleanedData, processingStep, progress, error, pc,
                 cleanedResults, i, response, analyzedBatch, writes, issued, merges,
                 download>>

\* handleDownloadClick; the button is rendered when the results are shown
\* and displayedData.length > 0, and disabled while processing
HandleDownloadClick ==
  /\ processingStep \notin {"idle", "cleaning"}
  /\ ~isProcessing
  /\ Len(displayedData) > 0
  /\ download' = [kind |-> "csv", content |-> convertToCsv(displayedData),
                  data |-> displayedData, filters |-> filters]
  /\ UNCHANGED <<inputFile, cleanedData, processingStep, progress, error, pc,
                 cleanedResults, i, response, analyzedBatch, writes, issued, merges,
                 filters, displayedData>>

ExportNext ==
  \/ \E name \in DOMAIN NoFilters, value \in FilterTexts : HandleFilterChange(name, value)
  \/ HandleDownloadClick

ExportSpec == ExportInit /\ [][ExportNext]_vars

-----------------------------------------------------------------------------
(* Vocabulary of the properties *)

Has(r, k) == k \in DOMAIN r

AllDimensions(r) == \A d \in Dimensions : Has(r, d)

NoDimension(r) == \A d \in Dimensions : ~Has(r, d)

Terminal == {Scored, Failed}

\* The dimension scores, the comment and the quality score a record carries
ScoresOf(r) ==
  [k \in (Dimensions \cup {"comentario", "QualityScore"}) \cap DOMAIN r |-> r[k]]

FailedWithZero(r) == r.status = Failed /\ Has(r, "QualityScore") /\ r.QualityScore = 0

\* The positions of cleanedResults (and of cleanedData) the current batch covers
BatchPositions == {x \in 1..Len(cleanedResults) : i < x /\ x <= i + BATCH_SIZE}

\* A batch has just been handled: its response and its result are still at hand
JustSettled == response # NoResponse

ScoringFailed == response.kind \in {"throws", "unparseable"}

UniqueIds(data) ==
  \A x, y \in DOMAIN data : x # y => data[x]._id # data[y]._id

\* Field f is the same in a and in b: absent from both, or equal
SameField(a, b, f) == (Has(a, f) <=> Has(b, f)) /\ (Has(a, f) => a[f] = b[f])

\* An item of a response that the scorer's schema does not allow for this batch
InvalidItem(item, batch) ==
  \/ \E f \in Dimensions \cup {"id", "comentario"} : ~Has(item, f)
  \/ Has(item, "id") /\ \A j \in 1..Len(batch) : batch[j]._id # item.id

\* 0.20*clareza + 0.20*empatia + 0.20*coerencia + 0.15*formalidade +
\* 0.15*eficacia + 0.10*linguistica, in ten-thousandths
WeightedSum(r) ==
  20 * r.clareza + 20 * r.empatia + 20 * r.coerencia
    + 15 * r.formalidade + 15 * r.eficacia + 10 * r.linguistica

\* x ten-thousandths rounded to hundredths
RoundTo2(x) == (x + 50) \div 100

-----------------------------------------------------------------------------
(* C1: a record's status changes only from Pending to Scored or Failed, and
   once it is Scored or Failed no later merge changes its status or its
   scores. *)
C1_StatusOnlyAdvances ==
  [][\A x \in (DOMAIN cleanedData) \cap (DOMAIN cleanedData') :
       LET old == cleanedData[x]
           new == cleanedData'[x]
       IN /\ old.status # new.status => old.status = Pending /\ new.status \in Terminal
          /\ old.status \in Terminal =>
               new.status = old.status /\ ScoresOf(new) = ScoresOf(old)]_vars

(* C1 on the runs whose records have pairwise different ids *)
C1_IfUniqueIds ==
  [][UniqueIds(cleanedData) =>
      \A x \in (DOMAIN cleanedData) \cap (DOMAIN cleanedData') :
        LET old == cleanedData[x]
            new == cleanedData'[x]
        IN /\ old.status # new.status => old.status = Pending /\ new.status \in Terminal
           /\ old.status \in Terminal =>
                new.status = old.status /\ ScoresOf(new) = ScoresOf(old)]_vars

(* C2: when the scoring call of a batch throws or its response does not
   parse, every record of the batch becomes Failed with quality score 0, the
   records of the other batches are left as they were, and the remaining
   batches are still scheduled. *)
C2_FailureIsolated ==
  [][(pc = "scoring" /\ pc' # "scoring" /\ response'.kind \in {"throws", "unparseable"}) =>
       /\ \A x \in BatchPositions : FailedWithZero(cleanedData'[x])
       /\ \A x \in (DOMAIN cleanedData) \ BatchPositions : cleanedData'[x] = cleanedData[x]
       /\ i + BATCH_SIZE < Len(cleanedResults) =>
            pc' = "delay" /\ processingStep' = "analyzing"]_vars

(* C2 on the runs whose records have pairwise different ids *)
C2_IfUniqueIds ==
  [][(UniqueIds(cleanedData) /\ pc = "scoring" /\ pc' # "scoring"
        /\ response'.kind \in {"throws", "unparseable"}) =>
       /\ \A x \in BatchPositions : FailedWithZero(cleanedData'[x])
       /\ \A x \in (DOMAIN cleanedData) \ BatchPositions : cleanedData'[x] = cleanedData[x]
       /\ i + BATCH_SIZE < Len(cleanedResults) =>
            pc' = "delay" /\ processingStep' = "analyzing"]_vars

(* C3: a response with an item whose id was not requested, or with an item
   that misses a required field, fails the whole batch: every record of the
   batch ends Failed with quality score 0. *)
C3_InvalidResponseFailsBatch ==
  (JustSettled /\ response.kind = "parsed"
     /\ \E k \in 1..Len(response.results) : InvalidItem(response.results[k], Batch))
  => \A x \in BatchPositions : FailedWithZero(cleanedData[x])

(* C4: on a parsed response, a requested id with an item in the response
   gives a Scored record that carries that item's six dimensions and comment,
   a requested id without one gives a Failed record with quality score 0, and
   the one does not hinder the other; the record of the collection that the
   id looks up receives that status. *)
C4_PerIdOutcome ==
  (JustSettled /\ response.kind = "parsed") =>
    \A j \in 1..Len(Batch) :
      LET items  == {k \in 1..Len(response.results) :
                       Has(response.results[k], "id")
                         /\ response.results[k].id = Batch[j]._id}
          record == analyzedBatch[j]
          shared == cleanedData[findIndex(cleanedData, Batch[j]._id) + 1]
      IN IF items # {}
         THEN /\ record.status = Scored
              /\ shared.status = Scored
              /\ \E k \in items :
                   /\ \A f \in Dimensions \cup {"comentario"} :
                        SameField(record, response.results[k], f)
                   /\ \A f \in (Dimensions \cup {"comentario"}) \cap DOMAIN response.results[k] :
                        Has(shared, f) /\ shared[f] = response.results[k][f]
         ELSE FailedWithZero(record) /\ FailedWithZero(shared)

C4_Witness ==
  /\ JustSettled
  /\ response.kind = "parsed"
  /\ \E j, k \in 1..Len(Batch) :
       /\ analyzedBatch[j].status = Scored
       /\ AllDimensions(analyzedBatch[j])
       /\ analyzedBatch[j].clareza = 725
       /\ cleanedData[i + j].status = Scored
       /\ analyzedBatch[k].status = Failed
       /\ cleanedData[i + k].status = Failed

(* C5: every Scored record has all six dimensions, and its quality score is
   their weighted sum rounded to two decimal places. *)
C5_ScoredHasWeightedScore ==
  \A x \in DOMAIN cleanedData :
    cleanedData[x].status = Scored =>
      /\ AllDimensions(cleanedData[x])
      /\ Has(cleanedData[x], "QualityScore")
      /\ cleanedData[x].QualityScore # NaN
      /\ cleanedData[x].QualityScore = RoundTo2(WeightedSum(cleanedData[x]))

(* C5 on the Scored records whose quality score is a number *)
C5_IfScoreIsNumber ==
  \A x \in DOMAIN cleanedData :
    (cleanedData[x].status = Scored /\ cleanedData[x].QualityScore # NaN) =>
      /\ AllDimensions(cleanedData[x])
      /\ cleanedData[x].QualityScore = RoundTo2(WeightedSum(cleanedData[x]))

(* C6: every Failed record has quality score 0 and none of the six
   dimension fields. *)
C6_FailedHasNoDimension ==
  \A x \in DOMAIN cleanedData :
    cleanedData[x].status = Failed =>
      FailedWithZero(cleanedData[x]) /\ NoDimension(cleanedData[x])

(* C6 on the runs whose records have pairwise different ids *)
C6_IfUniqueIds ==
  UniqueIds(cleanedData) =>
    \A x \in DOMAIN cleanedData :
      cleanedData[x].status = Failed =>
        FailedWithZero(cleanedData[x]) /\ NoDimension(cleanedData[x])

C8_PendingIsBare ==
  \A x \in DOMAIN cleanedData :
    cleanedData[x].status = Pending =>
      (Dimensions \cup {"comentario", "QualityScore"}) \cap DOMAIN cleanedData[x] = {}

C8_Witness ==
  /\ pc = "delay"
  /\ processingStep = "analyzing"
  /\ \E x, y \in DOMAIN cleanedData :
       /\ cleanedData[x].status = Scored
       /\ AllDimensions(cleanedData[x])
       /\ cleanedData[y].status = Pending

(* C9: no two records of the normalized collection have the same id,
   whatever the input array, embedded _id.$oid values included. *)
C9_IdsUnique == UniqueIds(cleanedData) /\ UniqueIds(cleanedResults)

(* C9 on the inputs that embed no $oid twice *)
C9_IfInputIdsDiffer ==
  (inputFile.kind = "array"
     /\ \A p, q \in DOMAIN inputFile.data :
          (p # q /\ Has(inputFile.data[p], "oid") /\ Has(inputFile.data[q], "oid")
             /\ inputFile.data[p].oid # "")
            => inputFile.data[p].oid # inputFile.data[q].oid)
  => UniqueIds(cleanedData) /\ UniqueIds(cleanedResults)

(* C10: across a run the merge writes each identifier at most once, and each
   record's terminal write happens exactly once: no record is written twice,
   and when the run is done every record has been written. *)
C10_WrittenOnce ==
  /\ \A x \in DOMAIN cleanedData : writes[x] <= 1
  /\ (processingStep = "done" /\ pc = "idle") =>
       \A x \in DOMAIN cleanedData : writes[x] = 1

(* C10 on the runs whose records have pairwise different ids *)
C10_IfUniqueIds ==
  UniqueIds(cleanedData) =>
    /\ \A x \in DOMAIN cleanedData : writes[x] <= 1
    /\ (processingStep = "done" /\ pc = "idle") =>
         \A x \in DOMAIN cleanedData : writes[x] = 1

(* C11: at any time at most one scoring call is outstanding: a call is issued
   only when every earlier call of the run has returned and been merged, and
   while the step is cleaning or analyzing no run is started. *)
C11_OneCallAtATime ==
  [][ /\ Len(issued') - merges' \in {0, 1}
      /\ Len(issued') > Len(issued) => Len(issued) = merges /\ Len(issued') = Len(issued) + 1
      /\ processingStep \in {"cleaning", "analyzing"} =>
           /\ pc # "idle"
           /\ pc' # "reading"
           /\ merges' >= merges
           /\ Len(issued') >= Len(issued) ]_vars

(* C11's case: the second call of a run is outstanding, the first one merged *)
C11_Witness == pc = "scoring" /\ Len(issued) = 2 /\ merges = 1

\* ceil(n / d)
CeilDiv(n, d) == (n + d - 1) \div d

(* C12: in a run over n > 0 records the scorer is invoked once per batch,
   ceil(n / BATCH_SIZE) times in total when the run is done, and no batch,
   failed or not, is sent a second time. *)
C12_OncePerBatch ==
  /\ \A a, b \in DOMAIN issued : a # b => issued[a].from # issued[b].from
  /\ Len(issued) <= CeilDiv(Len(cleanedResults), BATCH_SIZE)
  /\ (processingStep = "done" /\ Len(cleanedResults) > 0) =>
       Len(issued) = CeilDiv(Len(cleanedResults), BATCH_SIZE)

(* C12's case: a run of two batches is done, and the first batch's call had failed *)
C12_Witness ==
  /\ processingStep = "done"
  /\ Len(issued) = 2
  /\ cleanedData[1].status = Failed

(* C13: during a run progress.processed never decreases, grows by the length
   of each handled batch, never exceeds the total record count, and equals
   the total when the run reaches done. *)
C13_ProcessedCounter ==
  [][ /\ pc # "idle" => progress'.processed >= progress.processed
      /\ merges' = merges + 1 =>
           progress'.processed = progress.processed + Len(Batch)
      /\ progress'.processed <= progress'.total
      /\ processingStep' = "analyzing" => progress'.total = Len(cleanedResults')
      /\ processingStep' = "done" =>
           /\ progress'.processed = progress'.total
           /\ progress'.total = Len(cleanedResults') ]_vars

(* C13's case: the last, shorter batch of a run has just been counted *)
C13_Witness ==
  /\ processingStep = "done"
  /\ merges = 2
  /\ Len(Batch) < BATCH_SIZE
  /\ progress.processed = Len(cleanedResults)
  /\ progress.processed > BATCH_SIZE

\* the inputs on which a run ends with a fatal error
NotAnArray == inputFile # NoFile /\ inputFile.kind # "array"
ObjectShaped(item) == item.type = "object" /\ "isNull" \notin DOMAIN item
NoUsableRecord ==
  /\ inputFile # NoFile
  /\ inputFile.kind = "array"
  /\ \A p \in DOMAIN inputFile.data : ~ObjectShaped(inputFile.data[p])

(* C14: every fatal error of a run (the input is not a JSON array even after
   repair, or it has no usable record) sets one error message and leaves
   processingStep at idle, the step before the run. *)
C14_FatalErrorLeavesIdle ==
  (NotAnArray \/ NoUsableRecord) =>
    /\ processingStep \in {"idle", "cleaning"}
    /\ error # NoError => processingStep = "idle" /\ pc = "idle"

(* C14 on the inputs that processFile rejects; the input without a usable
   record ends the run at done instead *)
C14_RejectedLeavesIdle ==
  [][ /\ (pc = "reading" /\ NotAnArray) =>
           error' # NoError /\ processingStep' = "idle" /\ pc' = "idle"
      /\ (pc = "reading" /\ NoUsableRecord) =>
           error' # NoError /\ processingStep' = "done" /\ pc' = "idle" ]_vars

(* C15: when ingestion fails (syntax error, no array) or yields no usable
   record, the run issues no scoring call and the collection stays empty. *)
C15_NoScoringOnFatalInput ==
  (NotAnArray \/ NoUsableRecord) =>
    /\ issued = <<>>
    /\ pc \notin {"scoring", "delay"}
    /\ cleanedData = <<>>
    /\ cleanedResults = <<>>

(* C15's case: a run over an array of non-objects only has ended *)
C15_Witness ==
  /\ NoUsableRecord
  /\ Len(inputFile.data) >= 2
  /\ pc = "idle"
  /\ error # NoError

(* C15's other case: a run over a file with a syntax error has ended *)
C15_WitnessSyntax ==
  /\ inputFile # NoFile
  /\ inputFile.kind = "syntaxerror"
  /\ pc = "idle"
  /\ error # NoError

\* the sequence of ids of a sequence of records
IdsOf(records) == [x \in DOMAIN records |-> records[x]._id]

(* C16: from the moment the collection is populated until the run is done no
   merge removes, adds or reorders records: length and id sequence stay those
   of the normalized records, and a merge leaves every record whose id is
   not in the merged batch as it was. *)
C16_MergeKeepsCollection ==
  [][ /\ merges' = merges + 1 =>
           /\ Len(cleanedData') = Len(cleanedData)
           /\ IdsOf(cleanedData') = IdsOf(cleanedData)
           /\ \A x \in DOMAIN cleanedData :
                (\A j \in DOMAIN Batch : Batch[j]._id # cleanedData[x]._id)
                  => cleanedData'[x] = cleanedData[x]
      /\ (processingStep' \in {"analyzing", "done"} /\ pc' # "reading") =>
           IdsOf(cleanedData') = IdsOf(cleanedResults') ]_vars

(* C16's case: the second batch has been merged into a collection whose first
   batch was scored, and the records of the first batch are still scored *)
C16_Witness ==
  /\ merges = 2
  /\ Len(cleanedData) > BATCH_SIZE
  /\ cleanedData[1].status = Scored
  /\ cleanedData[Len(cleanedData)].status # Pending

\* the positions of the object-shaped elements of the input array, and the
\* k-th of them in array order
ObjectPositions ==
  {p \in DOMAIN inputFile.data : ObjectShaped(inputFile.data[p])}
KthObjectPosition(k) ==
  CHOOSE p \in ObjectPositions : Cardinality({q \in ObjectPositions : q < p}) = k - 1

(* C17: for an input whose top-level value is an array, normalization yields
   as many records as the array has object-shaped (non-null object) elements,
   in the order of their source elements; non-objects are dropped and raise
   no error. *)
C17_OneRecordPerObject ==
  (inputFile # NoFile /\ inputFile.kind = "array") =>
    /\ error \notin {RejectMessage([kind |-> k]) : k \in {"syntaxerror", "nonarray", "unreadable"}}
    /\ ObjectPositions # {} => error = NoError
    /\ processingStep \in {"analyzing", "done"} =>
         /\ Len(cleanedResults) = Cardinality(ObjectPositions)
         /\ \A k \in DOMAIN cleanedResults :
              /\ cleanedResults[k].title = inputFile.data[KthObjectPosition(k)].title
              /\ cleanedResults[k]._id =
                   RecordId(inputFile.data[KthObjectPosition(k)], KthObjectPosition(k))

(* C17's case: an array with a null among its elements and an object after
   a dropped element has been normalized *)
C17_Witness ==
  /\ inputFile # NoFile /\ inputFile.kind = "array"
  /\ processingStep \in {"analyzing", "done"}
  /\ \E p, q \in DOMAIN inputFile.data :
       /\ p < q
       /\ ~ObjectShaped(inputFile.data[p])
       /\ ObjectShaped(inputFile.data[q])
  /\ \E p \in DOMAIN inputFile.data : IsNull(inputFile.data[p])
  /\ Len(cleanedResults) = Len(inputFile.data) - 1

RECURSIVE Flatten(_)
\* the batches of a sequence of calls, one after the other
Flatten(calls) ==
  IF calls = <<>> THEN <<>> ELSE Head(calls).batch \o Flatten(Tail(calls))

(* C20: the pending records are cut into contiguous batches in input order,
   each of BATCH_SIZE (10) records except possibly the last, every record
   position is in exactly one batch, and the batches go to the scorer in
   that order. *)
C20_ContiguousBatches ==
  /\ \A k \in DOMAIN issued :
       /\ issued[k].from = (k - 1) * BATCH_SIZE
       /\ Len(issued[k].batch) \in 1..BATCH_SIZE
       /\ k < Len(issued) => Len(issued[k].batch) = BATCH_SIZE
       /\ \A j \in DOMAIN issued[k].batch :
            issued[k].batch[j] = cleanedResults[(k - 1) * BATCH_SIZE + j]
  /\ Len(Flatten(issued)) <= Len(cleanedResults)
  /\ (processingStep = "done" /\ pc = "idle") => Flatten(issued) = cleanedResults

(* C20's case: a run whose last batch is shorter than BATCH_SIZE is done *)
C20_Witness ==
  /\ processingStep = "done"
  /\ Len(issued) = 2
  /\ Len(issued[1].batch) = BATCH_SIZE
  /\ Len(issued[2].batch) = 2
  /\ Flatten(issued) = cleanedResults

-----------------------------------------------------------------------------
(* Reading a CSV text by the standard rules for quoted fields: a separator
   counts when it is outside quotes, a quoted field loses its enclosing
   quotes, and inside it a doubled quote stands for one quote *)

Malformed == "<malformed>"

\* the positions of character c in s that are outside quotes
SeparatorPositions(s, c) ==
  LET quotes == {q \in 1..Len(s) : charAt(s, q) = "\""}
  IN {p \in 1..Len(s) :
        charAt(s, p) = c /\ Cardinality({q \in quotes : q < p}) % 2 = 0}

\* the pieces of s between the separators c that are outside quotes
SplitOutsideQuotes(s, c) ==
  LET cuts == SeparatorPositions(s, c)
      n == Cardinality(cuts)
      cut(k) == CHOOSE p \in cuts : Cardinality({q \in cuts : q < p}) = k - 1
  IN [k \in 1..(n + 1) |->
        SubSeq(s, IF k = 1 THEN 1 ELSE cut(k - 1) + 1,
                  IF k = n + 1 THEN Len(s) ELSE cut(k) - 1)]

RECURSIVE HasLoneQuote(_)
\* the inside of a quoted field has a quote that is not doubled
HasLoneQuote(s) ==
  IF Len(s) = 0 THEN FALSE
  ELSE IF Len(s) >= 2 /\ SubSeq(s, 1, 2) = "\"\"" THEN HasLoneQuote(SubSeq(s, 3, Len(s)))
  ELSE IF charAt(s, 1) = "\"" THEN TRUE
  ELSE HasLoneQuote(SubSeq(s, 2, Len(s)))

RECURSIVE Undouble(_)
\* every doubled quote replaced by one quote
Undouble(s) ==
  IF Len(s) = 0 THEN ""
  ELSE IF Len(s) >= 2 /\ SubSeq(s, 1, 2) = "\"\"" THEN "\"" \o Undouble(SubSeq(s, 3, Len(s)))
  ELSE charAt(s, 1) \o Undouble(SubSeq(s, 2, Len(s)))

\* the value of one field
FieldValue(f) ==
  IF Len(f) >= 2 /\ charAt(f, 1) = "\"" /\ charAt(f, Len(f)) = "\""
  THEN IF HasLoneQuote(SubSeq(f, 2, Len(f) - 1)) THEN Malformed
       ELSE Undouble(SubSeq(f, 2, Len(f) - 1))
  ELSE IF includes(f, "\"") THEN Malformed ELSE f

\* the rows of a CSV text, each the sequence of its field values
ParseCsv(s) ==
  IF Len(s) = 0 THEN <<>>
  ELSE LET lines == SplitOutsideQuotes(s, "\n")
       IN [r \in DOMAIN lines |->
             LET fields == SplitOutsideQuotes(lines[r], ",")
             IN [f \in DOMAIN fields |-> FieldValue(fields[f])]]

\* the string values of the exported fields of a record, column by column
ExpectedRow(record) == [h \in 1..Len(headers) |-> valueString(record, headers[h])]

\* the header row followed by the rows of the records
ExpectedRows(records) ==
  <<headers>> \o [k \in 1..Len(records) |-> ExpectedRow(records[k])]

\* c and d are the same character or the two cases of one letter
SameLetter(c, d) ==
  \/ c = d
  \/ \E k \in 1..Len(UpperCaseLetters) :
       {c, d} = {charAt(UpperCaseLetters, k), charAt(LowerCaseLetters, k)}

\* s contains sub, the case of letters ignored
ContainsIgnoringCase(s, sub) ==
  \E p \in 1..(Len(s) - Len(sub) + 1) :
    \A j \in 1..Len(sub) : SameLetter(charAt(s, p + j - 1), charAt(sub, j))

\* the records of data whose title, community and author contain the filter texts
Matching(data, wanted) ==
  SelectSeq(data, LAMBDA record :
    /\ ContainsIgnoringCase(record.title, wanted.title)
    /\ ContainsIgnoringCase(record.community, wanted.community)
    /\ ContainsIgnoringCase(record.author, wanted.author))

(* C18: for every collection and every filter the exported CSV has one data
   row per record whose title, community and author contain the filter texts
   case-insensitively, in ingestion order; an empty filtered set gives empty
   output without header. *)
C18_ExportsMatchingRows ==
  /\ download.kind = "csv" =>
       ParseCsv(download.content) = ExpectedRows(Matching(cleanedData, download.filters))
  /\ displayedData = Matching(cleanedData, filters)
  /\ Matching(cleanedData, filters) = <<>> => convertToCsv(displayedData) = ""

(* C18's case: a file was exported under a filter in another case than the
   texts, which keeps some records of the collection and leaves others out *)
C18_Witness ==
  /\ download.kind = "csv"
  /\ download.filters.community = "NoR"
  /\ Len(download.data) >= 1
  /\ Len(download.data) < Len(cleanedData)

(* C18's other case: the filters leave no record of a non-empty collection *)
C18_WitnessEmpty ==
  /\ Len(cleanedData) > 0
  /\ filters # NoFilters
  /\ displayedData = <<>>

(* C19: for every non-empty sequence of records, reading the exported CSV by
   the standard rules for quoted fields gives back the string value of every
   exported field of every record, values with double quotes, commas or line
   breaks included. *)
C19_CsvRoundTrip ==
  download.kind = "csv" =>
    /\ Len(download.data) > 0
    /\ ParseCsv(download.content) = ExpectedRows(download.data)

(* C19's case: the exported records have a double quote, a comma and a line
   break in their texts *)
C19_Witness ==
  /\ download.kind = "csv"
  /\ \E k \in DOMAIN download.data : includes(download.data[k].title, "\"")
  /\ \E k \in DOMAIN download.data : includes(download.data[k].title, "\n")
  /\ \E k \in DOMAIN download.data : includes(download.data[k].author, ",")
  /\ \E k \in DOMAIN download.data :
       "comentario" \in DOMAIN download.data[k]
         /\ includes(download.data[k].comentario, "\"")

\* the number of batches of the run
BatchCount == CeilDiv(Len(cleanedResults), BATCH_SIZE)

(* C21: after merging a batch the loop suspends for the inter-batch delay if
   and only if a further batch remains, whether the merged batch succeeded
   or failed; every scoring call after the first is issued out of a delay,
   and after the last batch the run is done without a delay. *)
C21_DelayIffMoreBatches ==
  [][ /\ merges' = merges + 1 =>
           /\ pc' = "delay" <=> merges' < BatchCount
           /\ pc' # "delay" => pc' = "idle" /\ processingStep' = "done"
           /\ pc' = "delay" => processingStep' = "analyzing"
      /\ (Len(issued') = Len(issued) + 1 /\ Len(issued) >= 1) =>
           pc = "delay" /\ merges = Len(issued)
      /\ pc = "delay" =>
           pc' = "scoring" /\ Len(issued') = Len(issued) + 1 /\ merges' = merges ]_vars

(* C21's case: the loop is suspended after a batch whose call failed *)
C21_Witness ==
  /\ pc = "delay"
  /\ merges = 1
  /\ response.kind \in {"throws", "unparseable"}

(* C21's other cases: suspended after a batch that was scored, and done
   after the second batch without having been suspended again *)
C21_WitnessScored == pc = "delay" /\ merges = 1 /\ response.kind = "parsed"

C21_WitnessLast ==
  pc = "idle" /\ processingStep = "done" /\ merges = 2 /\ Len(issued) = 2

\* the run has ended at done with every batch merged
EndedDone == pc = "idle" /\ processingStep = "done" /\ merges = BatchCount

\* the run has ended on a fatal ingestion error
EndedOnIngestionError ==
  /\ pc = "idle"
  /\ error # NoError
  /\ merges = 0
  /\ NotAnArray \/ NoUsableRecord

(* C22: if the file read and every scoring call return, a run that has begun
   leaves the cleaning and analyzing steps: it ends done with all batches
   handled, or on a fatal ingestion error; a failed batch does not end it. *)
C22_RunEnds ==
  (processingStep \in {"cleaning", "analyzing"}) ~>
    (processingStep \notin {"cleaning", "analyzing"}
       /\ (EndedDone \/ EndedOnIngestionError))

(* C22's case: a run of two batches has ended done although both calls failed *)
C22_Witness ==
  /\ EndedDone
  /\ merges = 2
  /\ response.kind = "throws"
  /\ \A x \in DOMAIN cleanedData : cleanedData[x].status = Failed

(* C23: when a run over a non-empty collection reaches done, no record of
   the collection has status Pending: every record is Scored or Failed. *)
C23_NoPendingAtDone ==
  (processingStep = "done" /\ pc = "idle" /\ Len(cleanedData) > 0) =>
    \A x \in DOMAIN cleanedData : cleanedData[x].status \in Terminal

(* C23 on the runs whose records have pairwise different ids *)
C23_IfUniqueIds ==
  (UniqueIds(cleanedData) /\ processingStep = "done" /\ pc = "idle"
     /\ Len(cleanedData) > 0) =>
    \A x \in DOMAIN cleanedData : cleanedData[x].status \in Terminal

====
